---- MODULE Spec2Model ----
(***************************************************************************)
(* A model of the Tenor API wrapper: the TenorApi class (src/src/tenor.ts), *)
(* the parameter helpers renameParameters / createUrlParameters and the     *)
(* fetch helpers fetchTenorApi / fetchTenorApiEndpoint                      *)
(* (src/unnamed/part_001).                                                  *)
(*                                                                          *)
(* Text is a sequence of tokens.  A token is either one character that the  *)
(* URL machinery treats specially (" ", "&", "=", "+", "%", ",", "?", "/",  *)
(* a digit, a hex letter, a non-ASCII character, an unpaired surrogate) or  *)
(* an atom: a run of unreserved characters (letters, digits, "*-._") that   *)
(* every conversion below copies unchanged, such as "excited" or "limit".   *)
(***************************************************************************)
EXTENDS Integers, Sequences, FiniteSets, TLC

VARIABLES
    \* ---- the parameter pipeline, one input mapping at a time ----
    parameters,         \* the argument of renameParameters
    renamedParameters,  \* its result, the argument of createUrlParameters
    urlParameters,      \* the URLSearchParams list createUrlParameters returns
    queryString,        \* urlParameters.toString()
    stage,              \* "input" | "renamed" | "built" | "off"
    \* ---- #combineParameters on its own ----
    mergeKey,           \* this.#key
    mergeOptions,       \* this.options
    mergeParameters,    \* the argument of #combineParameters
    mergeResult,        \* its result
    mergeStage,         \* "input" | "merged" | "off"
    \* ---- the client ----
    key,                \* TenorApi.#key
    options,            \* TenorApi.options
    calls               \* slot -> the call in that slot

vars == <<parameters, renamedParameters, urlParameters, queryString, stage,
          mergeKey, mergeOptions, mergeParameters, mergeResult, mergeStage,
          key, options, calls>>

pipelineVars == <<parameters, renamedParameters, urlParameters, queryString, stage>>
mergeVars == <<mergeKey, mergeOptions, mergeParameters, mergeResult, mergeStage>>
clientVars == <<key, options, calls>>

(***************************************************************************)
(* Bounds                                                                   *)
(***************************************************************************)
\* the largest number of fields of an input mapping of the parameter pipeline
MaxEntries == 2
\* the number of call slots of one client
MaxInFlight == 2

(***************************************************************************)
(* JavaScript values: every value has all five fields so that any two       *)
(* values can be compared.                                                  *)
(***************************************************************************)
Undefined == [t |-> "undefined", s |-> <<>>, n |-> 0, b |-> FALSE, a |-> <<>>]
Str(text) == [t |-> "string", s |-> text, n |-> 0, b |-> FALSE, a |-> <<>>]
Num(number) == [t |-> "number", s |-> <<>>, n |-> number, b |-> FALSE, a |-> <<>>]
Bool(flag) == [t |-> "boolean", s |-> <<>>, n |-> 0, b |-> flag, a |-> <<>>]
\* an array of strings
Arr(elements) == [t |-> "array", s |-> <<>>, n |-> 0, b |-> FALSE, a |-> elements]

\* `if (value)`: undefined, "", 0 and false are falsy, every array is truthy
Truthy(value) ==
    CASE value.t = "undefined" -> FALSE
      [] value.t = "string" -> value.s # <<>>
      [] value.t = "number" -> value.n # 0
      [] value.t = "boolean" -> value.b
      [] value.t = "array" -> TRUE

IsArray(value) == value.t = "array"

DigitTokens == <<"0", "1", "2", "3", "4", "5", "6", "7", "8", "9">>

RECURSIVE NaturalToString(_)
NaturalToString(number) ==
    IF number < 10
        THEN <<DigitTokens[number + 1]>>
        ELSE NaturalToString(number \div 10) \o <<DigitTokens[(number % 10) + 1]>>

\* Number.prototype.toString() of an integer
NumberToString(number) ==
    IF number < 0 THEN <<"-">> \o NaturalToString(0 - number) ELSE NaturalToString(number)

\* the elements joined with ";"
RECURSIVE ArrayJoinedWithSemicolons(_)
ArrayJoinedWithSemicolons(elements) ==
    IF elements = <<>> THEN <<>>
    ELSE IF Len(elements) = 1 THEN Head(elements)
    ELSE Head(elements) \o <<";">> \o ArrayJoinedWithSemicolons(Tail(elements))

\* Array.prototype.toString(): the elements joined with ","
RECURSIVE ArrayToString(_)
ArrayToString(elements) ==
    IF elements = <<>> THEN <<>>
    ELSE IF Len(elements) = 1 THEN Head(elements)
    ELSE Head(elements) \o <<",">> \o ArrayToString(Tail(elements))

\* value.toString()
ValueToString(value) ==
    CASE value.t = "string" -> value.s
      [] value.t = "number" -> NumberToString(value.n)
      [] value.t = "boolean" -> (IF value.b THEN <<"true">> ELSE <<"false">>)
      [] value.t = "array" -> ArrayToString(value.a)
      [] value.t = "undefined" -> <<"undefined">>

(***************************************************************************)
(* Objects: the own enumerable properties in insertion order, and whether   *)
(* the object is frozen.                                                    *)
(***************************************************************************)
Object(entries) == [entries |-> entries, frozen |-> FALSE]

ObjectFreeze(object) == [object EXCEPT !.frozen = TRUE]

ObjectEntries(object) == object.entries

Names(entries) == {entries[i].name : i \in DOMAIN entries}

HasOwn(entries, name) == name \in Names(entries)

\* the value stored under name (the property exists)
Get(entries, name) ==
    entries[CHOOSE i \in DOMAIN entries : entries[i].name = name].value

\* an assignment that adds a field even when the target has one of that name
SetPropertyAppending(entries, name, value) ==
    Append(entries, [name |-> name, value |-> value])

\* target[name] = value: an existing property keeps its place, a new one is
\* added last
SetProperty(entries, name, value) ==
    IF HasOwn(entries, name)
        THEN [i \in DOMAIN entries |->
                IF entries[i].name = name
                    THEN [name |-> name, value |-> value]
                    ELSE entries[i]]
        ELSE Append(entries, [name |-> name, value |-> value])

\* an assignment that replaces the target by the source
AssignReplacing(target, source) ==
    IF source = <<>> THEN target ELSE source

\* Object.assign(target, source) and the spread {...target, ...source}
RECURSIVE Assign(_, _)
Assign(target, source) ==
    IF source = <<>> THEN target
    ELSE Assign(SetProperty(target, Head(source).name, Head(source).value), Tail(source))

(***************************************************************************)
(* renameParameters                                                         *)
(***************************************************************************)
newParameterNames ==
    [aspectRatioRange |-> "ar_range",
     clientKey |-> "client_key",
     contentFilter |-> "contentfilter",
     contentFormats |-> "media_filter",
     positionId |-> "pos",
     isRandomOrder |-> "random",
     searchFilter |-> "searchfilter",
     searchTerm |-> "q"]

\* a rename table whose positionId entry is missing
NewNameWithoutPositionId(currentName) ==
    IF currentName \in DOMAIN newParameterNames \ {"positionId"}
        THEN newParameterNames[currentName]
        ELSE currentName

NewName(currentName) ==
    IF currentName \in DOMAIN newParameterNames
        THEN newParameterNames[currentName]
        ELSE currentName

\* the for loop of renameParameters over the entries still to visit
RECURSIVE RenameLoop(_, _)
RenameLoop(entries, renamed) ==
    IF entries = <<>> THEN renamed
    ELSE RenameLoop(Tail(entries),
                    Assign(renamed, <<[name |-> NewName(Head(entries).name),
                                       value |-> Head(entries).value]>>))

\* a renameParameters that returns its object without freezing it
renameParametersWithoutFreeze(object) ==
    Object(RenameLoop(ObjectEntries(object), <<>>))

renameParameters(object) ==
    ObjectFreeze(Object(RenameLoop(ObjectEntries(object), <<>>)))

(***************************************************************************)
(* createUrlParameters and URLSearchParams                                  *)
(***************************************************************************)
LoneSurrogate == "U+DC00"
ReplacementCharacter == "U+FFFD"

\* the USVString conversion of URLSearchParams.append: an unpaired surrogate
\* becomes U+FFFD
ToUSVString(text) ==
    [i \in DOMAIN text |->
        IF text[i] = LoneSurrogate THEN ReplacementCharacter ELSE text[i]]

URLSearchParamsAppend(list, name, text) ==
    Append(list, [name |-> ToUSVString(<<name>>), value |-> ToUSVString(text)])

\* the loop without the test for an empty array
RECURSIVE CreateLoopKeepingEmptyArrays(_, _)
CreateLoopKeepingEmptyArrays(entries, list) ==
    IF entries = <<>> THEN list
    ELSE LET name == Head(entries).name
             value == Head(entries).value
         IN  CreateLoopKeepingEmptyArrays(Tail(entries),
                        IF Truthy(value)
                            THEN URLSearchParamsAppend(list, name, ValueToString(value))
                            ELSE list)

\* the for loop of createUrlParameters
RECURSIVE CreateLoop(_, _)
CreateLoop(entries, list) ==
    IF entries = <<>> THEN list
    ELSE LET name == Head(entries).name
             value == Head(entries).value
         IN  CreateLoop(Tail(entries),
                        IF Truthy(value) /\ ~(IsArray(value) /\ Len(value.a) = 0)
                            THEN URLSearchParamsAppend(list, name, ValueToString(value))
                            ELSE list)

createUrlParameters(object) == CreateLoop(ObjectEntries(object), <<>>)

\* application/x-www-form-urlencoded: a space becomes "+", a character outside
\* the unreserved ones becomes the percent-encoded bytes of its UTF-8 form
PercentEncoded ==
    [c \in {"&", "=", "+", "%", ",", "?", "/", "U+00E9", ReplacementCharacter} |->
        CASE c = "&" -> <<"%", "2", "6">>
          [] c = "=" -> <<"%", "3", "D">>
          [] c = "+" -> <<"%", "2", "B">>
          [] c = "%" -> <<"%", "2", "5">>
          [] c = "," -> <<"%", "2", "C">>
          [] c = "?" -> <<"%", "3", "F">>
          [] c = "/" -> <<"%", "2", "F">>
          [] c = "U+00E9" -> <<"%", "C", "3", "%", "A", "9">>
          [] c = ReplacementCharacter -> <<"%", "E", "F", "%", "B", "F", "%", "B", "D">>]

\* an encoder that leaves "&" and "=" as they are
EncodeTokenKeepingSeparators(c) ==
    IF c = " " THEN <<"+">>
    ELSE IF c \in DOMAIN PercentEncoded \ {"&", "="} THEN PercentEncoded[c]
    ELSE <<c>>

EncodeToken(c) ==
    IF c = " " THEN <<"+">>
    ELSE IF c \in DOMAIN PercentEncoded THEN PercentEncoded[c]
    ELSE <<c>>

RECURSIVE UrlEncode(_)
UrlEncode(text) ==
    IF text = <<>> THEN <<>> ELSE EncodeToken(Head(text)) \o UrlEncode(Tail(text))

\* URLSearchParams.prototype.toString()
RECURSIVE URLSearchParamsToString(_)
URLSearchParamsToString(list) ==
    IF list = <<>> THEN <<>>
    ELSE UrlEncode(Head(list).name) \o <<"=">> \o UrlEncode(Head(list).value)
         \o (IF Len(list) = 1 THEN <<>> ELSE <<"&">> \o URLSearchParamsToString(Tail(list)))

(***************************************************************************)
(* Parsing a query string (new URLSearchParams(text)): the reader of the    *)
(* requests, used by the properties to state what a query string carries.   *)
(***************************************************************************)
IsPrefix(prefix, text) ==
    /\ Len(prefix) <= Len(text)
    /\ \A i \in DOMAIN prefix : text[i] = prefix[i]

\* the text without its first count tokens
Drop(text, count) == SubSeq(text, count + 1, Len(text))

\* "+" is a space, a percent-encoded byte sequence is the character it encodes
RECURSIVE UrlDecode(_)
UrlDecode(text) ==
    IF text = <<>> THEN <<>>
    ELSE IF Head(text) = "+" THEN <<" ">> \o UrlDecode(Tail(text))
    ELSE IF \E c \in DOMAIN PercentEncoded : IsPrefix(PercentEncoded[c], text)
        THEN LET c == CHOOSE d \in DOMAIN PercentEncoded : IsPrefix(PercentEncoded[d], text)
             IN  <<c>> \o UrlDecode(Drop(text, Len(PercentEncoded[c])))
    ELSE <<Head(text)>> \o UrlDecode(Tail(text))

\* the index of the first token equal to separator, 0 when there is none
IndexOf(text, separator) ==
    IF \E i \in DOMAIN text : text[i] = separator
        THEN CHOOSE i \in DOMAIN text :
                /\ text[i] = separator
                /\ \A j \in 1..(i - 1) : text[j] # separator
        ELSE 0

\* one name=value piece
ParsePair(piece) ==
    LET at == IndexOf(piece, "=")
    IN  IF at = 0
            THEN [name |-> UrlDecode(piece), value |-> <<>>]
            ELSE [name |-> UrlDecode(SubSeq(piece, 1, at - 1)),
                  value |-> UrlDecode(Drop(piece, at))]

\* the pieces between "&", empty pieces skipped
RECURSIVE ParseQuery(_)
ParseQuery(text) ==
    IF text = <<>> THEN <<>>
    ELSE LET at == IndexOf(text, "&")
             piece == IF at = 0 THEN text ELSE SubSeq(text, 1, at - 1)
             rest == IF at = 0 THEN <<>> ELSE Drop(text, at)
         IN  (IF piece = <<>> THEN <<>> ELSE <<ParsePair(piece)>>) \o ParseQuery(rest)

\* the number of parameters called name
Count(pairs, name) == Cardinality({i \in DOMAIN pairs : pairs[i].name = <<name>>})

\* the query carries exactly one parameter name, and its value is text
Carries(pairs, name, text) ==
    /\ Count(pairs, name) = 1
    /\ \A i \in DOMAIN pairs : pairs[i].name = <<name>> => pairs[i].value = text

(***************************************************************************)
(* The parameter pipeline on bounded inputs                                 *)
(***************************************************************************)
IdiomaticNames ==
    {"aspectRatioRange", "clientKey", "contentFilter", "country", "id", "ids", "key",
     "limit", "locale", "contentFormats", "positionId", "isRandomOrder", "searchFilter",
     "type", "searchTerm"}

WireNames == {newParameterNames[n] : n \in DOMAIN newParameterNames}

ParameterNames == IdiomaticNames \cup WireNames

\* search terms: empty, plain, and one for each character the encoding treats
\* specially
StringChoices ==
    {<<>>, <<"excited">>, <<"so", " ", "excited">>, <<"a", "&", "b", "=", "c">>,
     <<"1", "+", "1">>, <<"%", "2", "6">>, <<"a", ",", "b">>, <<"caf", "U+00E9">>,
     <<"x", LoneSurrogate>>}

ValueChoices(name) ==
    CASE name = "searchTerm" -> {Undefined} \cup {Str(s) : s \in StringChoices}
      [] name = "q" -> {Str(<<"happy">>), Str(<<>>)}
      [] name = "clientKey" -> {Str(<<"my_test_app">>), Undefined}
      [] name = "client_key" -> {Str(<<"other_app">>)}
      [] name = "limit" -> {Num(0), Num(8), Num(20)}
      [] name = "isRandomOrder" -> {Bool(FALSE), Bool(TRUE)}
      [] name = "random" -> {Bool(TRUE)}
      [] name = "searchFilter" ->
            {Arr(<<>>), Arr(<<<<"sticker">>>>), Arr(<<<<"sticker">>, <<"-static">>>>)}
      [] name = "searchfilter" -> {Arr(<<<<"sticker">>, <<"static">>>>)}
      [] name = "contentFormats" -> {Arr(<<>>), Arr(<<<<"gif">>, <<"tinygif">>>>)}
      [] name = "media_filter" -> {Arr(<<<<"mp4">>>>)}
      [] name = "ids" ->
            {Arr(<<<<"11586094175715197775">>, <<"16989471141791455574">>>>),
             Arr(<<<<"a", "&", "b">>, <<"c", ",", "d">>>>)}
      [] name = "aspectRatioRange" -> {Str(<<"wide">>)}
      [] name = "ar_range" -> {Str(<<"standard">>)}
      [] name = "contentFilter" -> {Str(<<"high">>)}
      [] name = "contentfilter" -> {Str(<<"low">>)}
      [] name = "positionId" -> {Str(<<"CAgQ">>)}
      [] name = "pos" -> {Str(<<"CBAQ">>)}
      [] name = "country" -> {Str(<<"KR">>)}
      [] name = "locale" -> {Str(<<"ko">>)}
      [] name = "id" -> {Str(<<"16989471141791455574">>)}
      [] name = "key" -> {Str(<<"LIVDSRZULELA">>)}
      [] name = "type" -> {Str(<<"trending">>)}

EntryChoices ==
    UNION {{[name |-> name, value |-> value] : value \in ValueChoices(name)} :
            name \in ParameterNames}

DistinctNames(entries) ==
    \A i, j \in DOMAIN entries : i # j => entries[i].name # entries[j].name

\* the mappings of at most MaxEntries fields, in every insertion order
InputMappings ==
    {entries \in UNION {[1..n -> EntryChoices] : n \in 0..MaxEntries} :
        DistinctNames(entries)}

NoObject == Object(<<>>)

PipelineOff ==
    /\ parameters = NoObject
    /\ renamedParameters = NoObject
    /\ urlParameters = <<>>
    /\ queryString = <<>>
    /\ stage = "off"

MergeOff ==
    /\ mergeKey = <<>>
    /\ mergeOptions = NoObject
    /\ mergeParameters = NoObject
    /\ mergeResult = NoObject
    /\ mergeStage = "off"

ClientOff ==
    /\ key = <<>>
    /\ options = NoObject
    /\ calls = <<>>

InitParameters ==
    /\ parameters \in {Object(entries) : entries \in InputMappings}
    /\ renamedParameters = NoObject
    /\ urlParameters = <<>>
    /\ queryString = <<>>
    /\ stage = "input"
    /\ MergeOff
    /\ ClientOff

\* renameParameters(parameters)
Rename ==
    /\ stage = "input"
    /\ renamedParameters' = renameParameters(parameters)
    /\ stage' = "renamed"
    /\ UNCHANGED <<parameters, urlParameters, queryString>>
    /\ UNCHANGED <<mergeVars, clientVars>>

\* createUrlParameters(renamedParameters).toString()
Build ==
    /\ stage = "renamed"
    /\ urlParameters' = createUrlParameters(renamedParameters)
    /\ queryString' = URLSearchParamsToString(urlParameters')
    /\ stage' = "built"
    /\ UNCHANGED <<parameters, renamedParameters>>
    /\ UNCHANGED <<mergeVars, clientVars>>

NextParameters == Rename \/ Build

SpecParameters == InitParameters /\ [][NextParameters]_vars

(***************************************************************************)
(* TenorApi.#combineParameters.  An absent options or parameters argument   *)
(* is the object without fields: spreading undefined adds nothing.          *)
(***************************************************************************)
\* a merge in which the client-wide defaults are spread last
combineParametersDefaultsLast(thisKey, thisOptions, object) ==
    ObjectFreeze(Object(
        Assign(Assign(<<[name |-> "key", value |-> Str(thisKey)]>>,
                      ObjectEntries(object)),
               ObjectEntries(thisOptions))))

\* Object.freeze({ key: this.#key, ...this.options, ...parameters })
combineParameters(thisKey, thisOptions, object) ==
    ObjectFreeze(Object(
        Assign(Assign(<<[name |-> "key", value |-> Str(thisKey)]>>,
                      ObjectEntries(thisOptions)),
               ObjectEntries(object))))

KeyChoices == {<<"LIVDSRZULELA">>}

MergeOptionEntries ==
    {[name |-> "clientKey", value |-> Str(<<"my_test_app">>)],
     [name |-> "country", value |-> Str(<<"KR">>)],
     [name |-> "locale", value |-> Str(<<"ko">>)],
     [name |-> "key", value |-> Str(<<"OPTIONSKEY">>)]}

MergeParameterEntries ==
    {[name |-> "clientKey", value |-> Str(<<"other_app">>)],
     [name |-> "clientKey", value |-> Undefined],
     [name |-> "locale", value |-> Str(<<"en">>)],
     [name |-> "limit", value |-> Num(8)],
     [name |-> "searchTerm", value |-> Str(<<"excited">>)],
     [name |-> "key", value |-> Str(<<"CALLKEY">>)]}

\* the mappings of at most MaxEntries of the given fields
MappingsOf(entryChoices) ==
    {entries \in UNION {[1..n -> entryChoices] : n \in 0..MaxEntries} :
        DistinctNames(entries)}

InitMerge ==
    /\ mergeKey \in KeyChoices
    /\ mergeOptions \in {Object(entries) : entries \in MappingsOf(MergeOptionEntries)}
    /\ mergeParameters \in {Object(entries) : entries \in MappingsOf(MergeParameterEntries)}
    /\ mergeResult = NoObject
    /\ mergeStage = "input"
    /\ PipelineOff
    /\ ClientOff

\* this.#combineParameters(parameters)
Combine ==
    /\ mergeStage = "input"
    /\ mergeResult' = combineParameters(mergeKey, mergeOptions, mergeParameters)
    /\ mergeStage' = "merged"
    /\ UNCHANGED <<mergeKey, mergeOptions, mergeParameters>>
    /\ UNCHANGED <<pipelineVars, clientVars>>

NextMerge == Combine

SpecMerge == InitMerge /\ [][NextMerge]_vars

(***************************************************************************)
(* HTTP responses, decoded bodies, results and errors                       *)
(***************************************************************************)
\* a decoded JSON object: the fields it has, and the values of status and of
\* error.code / error.message when it has them
Json(has, status, code, message) ==
    [has |-> has, status |-> status, code |-> code, message |-> message]

NoJson == Json({}, FALSE, Undefined, <<>>)

\* a response: the status line and the body text, which is JSON or not
Response(status, malformed, body) ==
    [received |-> TRUE, status |-> status, malformed |-> malformed, body |-> body]

NoResponse == [received |-> FALSE, status |-> 0, malformed |-> FALSE, body |-> NoJson]

NoValue == [t |-> "none", body |-> NoJson, b |-> FALSE]
BodyValue(json) == [t |-> "body", body |-> json, b |-> FALSE]
BooleanValue(flag) == [t |-> "boolean", body |-> NoJson, b |-> flag]
UndefinedValue == [t |-> "undefined", body |-> NoJson, b |-> FALSE]

Error(name, code, message) == [name |-> name, code |-> code, message |-> message]
NoError == Error("none", Undefined, <<>>)

Pending == [kind |-> "pending", value |-> NoValue, error |-> NoError]
Returned(value) == [kind |-> "returned", value |-> value, error |-> NoError]
Thrown(error) == [kind |-> "thrown", value |-> NoValue, error |-> error]

\* what fetch() rejects with when the request cannot be made
NetworkError == Error("TypeError", Undefined, <<"fetch", " ", "failed">>)
\* what fetch() rejects with when the connection is lost before the headers
ConnectionError == Error("TypeError", Undefined, <<"terminated">>)
\* the errors of the transport
TransportErrors == {NetworkError, ConnectionError}
\* what response.json() rejects with when the body is not JSON
JsonSyntaxError == Error("SyntaxError", Undefined, <<"Unexpected", " ", "token">>)
\* new GoogleApiError(jsonResponse.error): the error carries the envelope's
\* code and message
GoogleApiError(json) == Error("GoogleApiError", json.code, json.message)

\* response.ok
ResponseOk(response) == response.status >= 200 /\ response.status <= 299

(***************************************************************************)
(* fetchTenorApi and fetchTenorApiEndpoint                                  *)
(***************************************************************************)
BaseUrl == <<"https:", "/", "/", "tenor.googleapis.com", "/", "v2", "/">>
Origin == <<"https:", "/", "/", "tenor.googleapis.com">>

\* new URL(path, "https://tenor.googleapis.com/v2/"): a path that starts with
\* "/" replaces the base path, any other path is appended to it
RequestUrl(path) ==
    IF path # <<>> /\ Head(path) = "/" THEN Origin \o path ELSE BaseUrl \o path

\* a fetchTenorApi that catches what its awaits throw and raises its own error
RejectedAsRemoteError(error) ==
    Thrown(Error("GoogleApiError", Undefined, error.message))

\* `await fetch(...)` and `await response.json()` stand outside any try block:
\* when the awaited promise rejects, fetchTenorApi rejects with its reason
Rejected(error) == Thrown(error)

\* a fetchTenorApi that returns the body whatever the status
fetchTenorApiResultWithoutStatusTest(response) ==
    Returned(BodyValue(response.body))

\* a status test that accepts 200 alone
fetchTenorApiResultOnly200(response) ==
    IF response.status # 200
        THEN Thrown(GoogleApiError(response.body))
        ELSE Returned(BodyValue(response.body))

\* the rest of fetchTenorApi once the body is decoded
fetchTenorApiResult(response) ==
    IF ~ResponseOk(response)
        THEN Thrown(GoogleApiError(response.body))
        ELSE Returned(BodyValue(response.body))

\* a path that joins the resource name and the query string with "&"
fetchTenorApiEndpointPathWithAmpersand(resourceName, object) ==
    <<resourceName, "&">>
        \o URLSearchParamsToString(createUrlParameters(renameParameters(object)))

\* `${resourceName}?${createUrlParameters(renameParameters(parameters)).toString()}`
fetchTenorApiEndpointPath(resourceName, object) ==
    <<resourceName, "?">>
        \o URLSearchParamsToString(createUrlParameters(renameParameters(object)))

(***************************************************************************)
(* The public operations of TenorApi                                        *)
(***************************************************************************)
Operations ==
    {"getSearchTermSuggestions", "getSearchTermAutocompletes", "getTrendingSearchTerms",
     "getGifsBySearch", "getGifsByCategory", "getGifsById", "getFeaturedGifs",
     "getGifCategories", "registerGifShareEvent"}

\* the resource name each operation passes to fetchTenorApiEndpoint
ResourceName(operation) ==
    CASE operation = "getSearchTermSuggestions" -> "search_suggestions"
      [] operation = "getSearchTermAutocompletes" -> "autocomplete"
      [] operation = "getTrendingSearchTerms" -> "trending_terms"
      [] operation = "getGifsBySearch" -> "search"
      [] operation = "getGifsById" -> "posts"
      [] operation = "getFeaturedGifs" -> "featured"
      [] operation = "getGifCategories" -> "categories"
      [] operation = "registerGifShareEvent" -> "registershare"

\* the name of the first argument of the operations that have one
FirstArgument ==
    [getSearchTermSuggestions |-> "searchTerm",
     getSearchTermAutocompletes |-> "searchTerm",
     getGifsBySearch |-> "searchTerm",
     getGifsById |-> "ids",
     registerGifShareEvent |-> "id"]

\* { searchTerm, ...parameters }, { ids, ...parameters }, { id, ...parameters }
\* or parameters itself
WithFirstArgument(operation, first, object) ==
    IF operation \in DOMAIN FirstArgument
        THEN Object(Assign(<<[name |-> FirstArgument[operation], value |-> first]>>,
                           ObjectEntries(object)))
        ELSE object

\* the parameters object an operation builds for the request
EndpointParameters(thisKey, thisOptions, invocation) ==
    IF invocation.operation = "registerGifShareEvent"
        THEN WithFirstArgument(invocation.operation, invocation.first, invocation.parameters)
        ELSE combineParameters(thisKey, thisOptions,
                WithFirstArgument(invocation.operation, invocation.first,
                                  invocation.parameters))

\* a category path joined to the parameters with "?"
CategoryPathWithQuestionMark(path, object) ==
    path \o <<"?">> \o URLSearchParamsToString(createUrlParameters(renameParameters(object)))

\* `${category.path}&${createUrlParameters(renameParameters(...)).toString()}`
CategoryPath(path, object) ==
    path \o <<"&">> \o URLSearchParamsToString(createUrlParameters(renameParameters(object)))

\* the argument of fetchTenorApi
RequestPath(thisKey, thisOptions, invocation) ==
    IF invocation.operation = "getGifsByCategory"
        THEN CategoryPath(invocation.path,
                          EndpointParameters(thisKey, thisOptions, invocation))
        ELSE fetchTenorApiEndpointPath(ResourceName(invocation.operation),
                                       EndpointParameters(thisKey, thisOptions, invocation))

\* a share registration that hands back the envelope
ShareEventResultIsEnvelope(fetched) ==
    IF fetched.kind = "thrown" THEN fetched
    ELSE Returned(fetched.value)

\* the rest of registerGifShareEvent after its await: `return response.status`
ShareEventResult(fetched) ==
    IF fetched.kind = "thrown" THEN fetched
    ELSE IF "status" \in fetched.value.body.has
        THEN Returned(BooleanValue(fetched.value.body.status))
        ELSE Returned(UndefinedValue)

(***************************************************************************)
(* The client: calls move through the awaits of fetchTenorApi               *)
(***************************************************************************)
Slots == 1..MaxInFlight

IdleCall ==
    [pc |-> "idle",
     invocation |-> [operation |-> "none", first |-> Undefined, path |-> <<>>,
                     parameters |-> NoObject],
     sent |-> NoObject,     \* the parameters object the request was built from
     url |-> <<>>,          \* the URL given to fetch
     requests |-> 0,        \* the GET requests issued for this call
     steps |-> <<>>,        \* what fetchTenorApi has done so far, in order
     suspensions |-> 0,     \* the times the call has yielded control so far
     response |-> NoResponse,
     raised |-> NoError,    \* what fetch() or response.json() rejected with
     fetched |-> Pending,   \* how fetchTenorApi ended
     outcome |-> Pending]   \* how the operation ended

OptionChoices ==
    {Object(<<>>),
     Object(<<[name |-> "clientKey", value |-> Str(<<"my_test_app">>)]>>),
     Object(<<[name |-> "clientKey", value |-> Str(<<"my_test_app">>)],
              [name |-> "locale", value |-> Str(<<"ko">>)]>>),
     Object(<<[name |-> "country", value |-> Str(<<"KR">>)],
              [name |-> "locale", value |-> Str(<<"ko">>)]>>)}

CallParameterChoices ==
    {Object(<<>>),
     Object(<<[name |-> "limit", value |-> Num(8)]>>),
     Object(<<[name |-> "clientKey", value |-> Str(<<"other_app">>)]>>),
     Object(<<[name |-> "locale", value |-> Undefined]>>),
     Object(<<[name |-> "country", value |-> Str(<<>>)]>>),
     Object(<<[name |-> "limit", value |-> Num(8)],
              [name |-> "positionId", value |-> Str(<<"CAgQ">>)]>>)}

CategoryPaths ==
    {<<"search", "?", "q", "=", "excited">>,
     <<"/", "v2", "/", "search", "?", "q", "=", "excited", "&", "component", "=",
       "categories">>}

FirstChoices(operation) ==
    CASE operation \in {"getSearchTermSuggestions", "getSearchTermAutocompletes",
                        "getGifsBySearch"} -> {Str(<<"excited">>)}
      [] operation = "getGifsById" -> {Arr(<<<<"11586094175715197775">>>>)}
      [] operation = "registerGifShareEvent" -> {Str(<<"16989471141791455574">>)}
      [] OTHER -> {Undefined}

Invocations ==
    {[operation |-> operation, first |-> first, path |-> path, parameters |-> object] :
        operation \in Operations \ {"getGifsByCategory"},
        first \in UNION {FirstChoices(o) : o \in Operations},
        path \in {<<>>},
        object \in CallParameterChoices}

EndpointInvocations ==
    {invocation \in Invocations : invocation.first \in FirstChoices(invocation.operation)}

CategoryInvocations ==
    {[operation |-> "getGifsByCategory", first |-> Undefined, path |-> path,
      parameters |-> object] :
        path \in CategoryPaths, object \in CallParameterChoices}

AllInvocations == EndpointInvocations \cup CategoryInvocations

Statuses == {200, 299, 400, 500}

\* the bodies of the remote API's success envelopes, one of them with an
\* error field next to its results
SuccessBodies ==
    {Json({"results", "next"}, FALSE, Undefined, <<>>),
     Json({"status"}, TRUE, Undefined, <<>>),
     Json({"status"}, FALSE, Undefined, <<>>),
     Json({"results", "next", "error"}, FALSE, Num(200), <<"partial">>),
     Json({}, FALSE, Undefined, <<>>)}

\* the bodies of its error envelopes
ErrorBodies ==
    {Json({"error"}, FALSE, Str(<<"BAD_REQUEST">>), <<"x">>),
     Json({"error"}, FALSE, Num(400), <<"API", " ", "key", " ", "not", " ", "valid">>)}

\* the remote API answers a success status with a success envelope or an
\* error envelope and a failure status with an error envelope; whatever the
\* status, the body may also be no JSON at all (an intermediary's page)
ResponseChoices ==
    {Response(status, FALSE, body) :
        status \in {200, 299}, body \in SuccessBodies \cup ErrorBodies}
    \cup {Response(status, FALSE, body) : status \in {400, 500}, body \in ErrorBodies}
    \cup {Response(status, TRUE, NoJson) : status \in Statuses}

Init ==
    /\ key \in KeyChoices
    /\ options \in OptionChoices
    /\ calls = [c \in Slots |-> IdleCall]
    /\ PipelineOff
    /\ MergeOff

\* the caller of this specification awaits each call before it makes the next
NoCallInFlight == \A c \in Slots : calls[c].pc = "idle"

\* an operation that merges the call's parameters into this.options and
\* sends the result
InvokeMergingIntoOptions(c, invocation) ==
    /\ calls[c].pc = "idle"
    /\ options' = Object(Assign(ObjectEntries(options),
                                ObjectEntries(invocation.parameters)))
    /\ calls' = [calls EXCEPT ![c] =
            [IdleCall EXCEPT
                !.pc = "fetch",
                !.invocation = invocation,
                !.sent = EndpointParameters(key, options', invocation),
                !.url = RequestUrl(RequestPath(key, options', invocation)),
                !.requests = 1,
                !.steps = <<"GET">>,
                !.suspensions = 1]]
    /\ UNCHANGED <<key, pipelineVars, mergeVars>>

\* a public operation is called: everything up to `await fetch(...)`
Invoke(c, invocation) ==
    /\ calls[c].pc = "idle"
    /\ calls' = [calls EXCEPT ![c] =
            [IdleCall EXCEPT
                !.pc = "fetch",
                !.invocation = invocation,
                !.sent = EndpointParameters(key, options, invocation),
                !.url = RequestUrl(RequestPath(key, options, invocation)),
                !.requests = 1,
                !.steps = <<"GET">>,
                !.suspensions = 1]]
    /\ UNCHANGED <<key, options, pipelineVars, mergeVars>>

\* a registerGifShareEvent that hands on the promise of the fetch helper
\* without an await of its own
AfterFetchedWithoutAwait(call, fetched) ==
    IF call.invocation.operation = "registerGifShareEvent"
        THEN [call EXCEPT !.pc = "settled", !.fetched = fetched,
                          !.outcome = ShareEventResult(fetched)]
        ELSE [call EXCEPT !.pc = "settled", !.fetched = fetched, !.outcome = fetched]

\* where a call goes when fetchTenorApi has ended: registerGifShareEvent
\* awaits the result, the other operations return the promise itself
AfterFetched(call, fetched) ==
    IF call.invocation.operation = "registerGifShareEvent"
        THEN [call EXCEPT !.pc = "unwrap", !.fetched = fetched,
                          !.suspensions = @ + 1]
        ELSE [call EXCEPT !.pc = "settled", !.fetched = fetched, !.outcome = fetched]

\* a fetchTenorApi that tests the status first and decodes the body of a
\* success response only
FetchFulfilTestingStatusFirst(c, response) ==
    /\ calls[c].pc = "fetch"
    /\ calls' = [calls EXCEPT ![c] =
            IF ~ResponseOk(response)
                THEN AfterFetched([calls[c] EXCEPT !.response = response,
                                                   !.steps = Append(@, "status")],
                                  Thrown(GoogleApiError(NoJson)))
                ELSE [calls[c] EXCEPT !.pc = "json",
                                      !.response = response,
                                      !.steps = Append(@, "status") \o <<"decode">>,
                                      !.suspensions = @ + 1]]
    /\ UNCHANGED <<key, options, pipelineVars, mergeVars>>

\* a fetchTenorApi that keeps the response in a variable of the module: every
\* call that waits for its response takes the one that has just arrived
FetchFulfilSharedResponse(c, response) ==
    /\ calls[c].pc = "fetch"
    /\ calls' = [d \in Slots |->
            IF calls[d].pc = "fetch"
                THEN [calls[d] EXCEPT !.pc = "json",
                                      !.response = response,
                                      !.steps = Append(@, "decode"),
                                      !.suspensions = @ + 1]
                ELSE calls[d]]
    /\ UNCHANGED <<key, options, pipelineVars, mergeVars>>

\* fetch() fulfils: fetchTenorApi goes on to `await response.json()`
FetchFulfil(c, response) ==
    /\ calls[c].pc = "fetch"
    /\ calls' = [calls EXCEPT ![c].pc = "json",
                              ![c].response = response,
                              ![c].steps = Append(@, "decode"),
                              ![c].suspensions = @ + 1]
    /\ UNCHANGED <<key, options, pipelineVars, mergeVars>>

\* fetch() rejects: fetchTenorApi throws what fetch threw
FetchReject(c, error) ==
    /\ calls[c].pc = "fetch"
    /\ calls' = [calls EXCEPT ![c] =
            AfterFetched([calls[c] EXCEPT !.raised = error], Rejected(error))]
    /\ UNCHANGED <<key, options, pipelineVars, mergeVars>>

\* response.json() rejects: the body is not JSON
JsonReject(c) ==
    /\ calls[c].pc = "json"
    /\ calls[c].response.malformed
    /\ calls' = [calls EXCEPT ![c] =
            AfterFetched([calls[c] EXCEPT !.raised = JsonSyntaxError],
                         Rejected(JsonSyntaxError))]
    /\ UNCHANGED <<key, options, pipelineVars, mergeVars>>

\* a fetchTenorApi that sends the request again, once, after a failure status
JsonFulfilRetrying(c) ==
    /\ calls[c].pc = "json"
    /\ ~calls[c].response.malformed
    /\ calls' = [calls EXCEPT ![c] =
            IF ~ResponseOk(calls[c].response) /\ calls[c].requests < 2
                THEN [calls[c] EXCEPT !.pc = "fetch", !.requests = @ + 1,
                                      !.response = NoResponse]
                ELSE AfterFetched([calls[c] EXCEPT !.steps = Append(@, "status")],
                                  fetchTenorApiResult(calls[c].response))]
    /\ UNCHANGED <<key, options, pipelineVars, mergeVars>>

\* response.json() fulfils: the status test and the return of fetchTenorApi
JsonFulfil(c) ==
    /\ calls[c].pc = "json"
    /\ ~calls[c].response.malformed
    /\ calls' = [calls EXCEPT ![c] =
            AfterFetched([calls[c] EXCEPT !.steps = Append(@, "status")],
                         fetchTenorApiResult(calls[c].response))]
    /\ UNCHANGED <<key, options, pipelineVars, mergeVars>>

\* registerGifShareEvent resumes after its await
Unwrap(c) ==
    /\ calls[c].pc = "unwrap"
    /\ calls' = [calls EXCEPT ![c].pc = "settled",
                              ![c].outcome = ShareEventResult(calls[c].fetched)]
    /\ UNCHANGED <<key, options, pipelineVars, mergeVars>>

\* the caller takes the result; the slot is free again
Consume(c) ==
    /\ calls[c].pc = "settled"
    /\ calls' = [calls EXCEPT ![c] = IdleCall]
    /\ UNCHANGED <<key, options, pipelineVars, mergeVars>>

\* the caller makes its next call
Call(c, invocation) == NoCallInFlight /\ Invoke(c, invocation)

Next ==
    \/ \E c \in Slots, invocation \in AllInvocations : Call(c, invocation)
    \/ \E c \in Slots, response \in ResponseChoices : FetchFulfil(c, response)
    \/ \E c \in Slots, error \in TransportErrors : FetchReject(c, error)
    \/ \E c \in Slots : JsonReject(c)
    \/ \E c \in Slots : JsonFulfil(c)
    \/ \E c \in Slots : Unwrap(c)
    \/ \E c \in Slots : Consume(c)

Spec == Init /\ [][Next]_vars

(***************************************************************************)
(* The client with calls in flight at the same time: the caller does not    *)
(* await a call before it makes the next, so the steps of the calls         *)
(* interleave in every order                                                *)
(***************************************************************************)
ConcurrentInvocations ==
    {invocation \in AllInvocations :
        \/ /\ invocation.operation = "getGifsBySearch"
           /\ invocation.parameters = Object(<<[name |-> "limit", value |-> Num(8)]>>)
        \/ /\ invocation.operation = "registerGifShareEvent"
           /\ invocation.parameters = Object(<<>>)
        \/ /\ invocation.operation = "getGifsByCategory"
           /\ invocation.path = <<"search", "?", "q", "=", "excited">>
           /\ invocation.parameters =
                Object(<<[name |-> "clientKey", value |-> Str(<<"other_app">>)]>>)}

ConcurrentResponses ==
    {response \in ResponseChoices :
        \/ response.status = 200 /\ response.body.has \in {{"results", "next"}, {"status"}}
                                 /\ response.body.status
                                        = ("status" \in response.body.has)
        \/ response.status = 400 /\ response.body.code = Str(<<"BAD_REQUEST">>)
        \/ response.status = 500 /\ response.malformed}

NextConcurrent ==
    \/ \E c \in Slots, invocation \in ConcurrentInvocations : Invoke(c, invocation)
    \/ \E c \in Slots, response \in ConcurrentResponses : FetchFulfil(c, response)
    \/ \E c \in Slots, error \in TransportErrors : FetchReject(c, error)
    \/ \E c \in Slots : JsonReject(c)
    \/ \E c \in Slots : JsonFulfil(c)
    \/ \E c \in Slots : Unwrap(c)
    \/ \E c \in Slots : Consume(c)

SpecConcurrent == Init /\ [][NextConcurrent]_vars

(***************************************************************************)
(* Properties of the parameter pipeline                                     *)
(***************************************************************************)
Renamed == stage \in {"renamed", "built"}
Built == stage = "built"

\* the rename table as the claim lists it
ClaimedWireNames ==
    [aspectRatioRange |-> "ar_range",
     clientKey |-> "client_key",
     contentFilter |-> "contentfilter",
     contentFormats |-> "media_filter",
     positionId |-> "pos",
     isRandomOrder |-> "random",
     searchFilter |-> "searchfilter",
     searchTerm |-> "q"]

\* the name the claim expects a field to have in the output
ClaimedName(name) ==
    IF name \in DOMAIN ClaimedWireNames THEN ClaimedWireNames[name] ELSE name

\* the last field of the input that the claim expects under outputName
LastWritten(entries, outputName) ==
    entries[CHOOSE i \in DOMAIN entries :
                /\ ClaimedName(entries[i].name) = outputName
                /\ \A j \in DOMAIN entries :
                        ClaimedName(entries[j].name) = outputName => j <= i]

\* the input holds an idiomatic name together with its own wire name
HoldsBothNames(entries) ==
    \E n \in DOMAIN ClaimedWireNames :
        HasOwn(entries, n) /\ HasOwn(entries, ClaimedWireNames[n])

\* C2 as stated: renameParameters puts every field whose name is in the rename
\* table under its wire name with its original value and without the idiomatic
\* name, and keeps every other field under its name with its value, for every
\* input mapping.
C2_RenameEveryInput ==
    Renamed =>
        \A i \in DOMAIN parameters.entries :
            LET field == parameters.entries[i]
                out == renamedParameters.entries
            IN  IF field.name \in DOMAIN ClaimedWireNames
                    THEN /\ HasOwn(out, ClaimedWireNames[field.name])
                         /\ Get(out, ClaimedWireNames[field.name]) = field.value
                         /\ ~HasOwn(out, field.name)
                    ELSE /\ HasOwn(out, field.name)
                         /\ Get(out, field.name) = field.value

\* C2 amended: the names are as stated for every input mapping; the value is
\* the original one for every input mapping that does not hold an idiomatic
\* name together with its own wire name, and when it holds both, the single
\* output field under the wire name has the value of whichever of the two
\* comes later in the input.
C2_RenameAmended ==
    Renamed =>
        LET given == parameters.entries
            out == renamedParameters.entries
        IN  /\ \A i \in DOMAIN given :
                    /\ HasOwn(out, ClaimedName(given[i].name))
                    /\ given[i].name \in DOMAIN ClaimedWireNames
                            => ~HasOwn(out, given[i].name)
            /\ ~HoldsBothNames(given) =>
                    \A i \in DOMAIN given :
                        Get(out, ClaimedName(given[i].name)) = given[i].value
            /\ \A n \in DOMAIN ClaimedWireNames :
                    HasOwn(given, n) /\ HasOwn(given, ClaimedWireNames[n]) =>
                        /\ Cardinality({j \in DOMAIN out :
                                            out[j].name = ClaimedWireNames[n]}) = 1
                        /\ Get(out, ClaimedWireNames[n])
                                = LastWritten(given, ClaimedWireNames[n]).value

\* a mapping with searchTerm before q and different values has been renamed
C2_Witness ==
    /\ stage = "renamed"
    /\ Len(parameters.entries) = 2
    /\ parameters.entries[1].name = "searchTerm"
    /\ parameters.entries[2].name = "q"
    /\ parameters.entries[1].value # parameters.entries[2].value
    /\ Get(renamedParameters.entries, "q") = parameters.entries[2].value

\* the values the claim calls absent or empty
DroppedValues == {Undefined, Str(<<>>), Num(0), Bool(FALSE), Arr(<<>>)}

\* the token occurs somewhere in the text
Occurs(text, token) == \E i \in DOMAIN text : text[i] = token

\* C3: a field of the mapping given to createUrlParameters whose value is
\* undefined, the empty string, 0, false or an array with no element appears
\* neither in the URLSearchParams list nor anywhere in the query string.
C3_FalsyAndEmptyOmitted ==
    Built =>
        \A i \in DOMAIN renamedParameters.entries :
            LET field == renamedParameters.entries[i]
            IN  field.value \in DroppedValues =>
                    /\ \A j \in DOMAIN urlParameters : urlParameters[j].name # <<field.name>>
                    /\ Count(ParseQuery(queryString), field.name) = 0
                    /\ ~Occurs(queryString, field.name)

\* an empty array was dropped next to a field that was kept
C3_Witness ==
    /\ Built
    /\ Len(renamedParameters.entries) = 2
    /\ renamedParameters.entries[1].value = Arr(<<>>)
    /\ renamedParameters.entries[2].value = Num(8)
    /\ queryString = <<"limit", "=", "8">>

\* the elements with a comma between each two, built from the right
RECURSIVE CommaJoined(_)
CommaJoined(elements) ==
    IF Len(elements) = 0 THEN <<>>
    ELSE IF Len(elements) = 1 THEN elements[1]
    ELSE CommaJoined(SubSeq(elements, 1, Len(elements) - 1))
            \o <<",">> \o elements[Len(elements)]

\* C4: a field whose value is a non-empty array is exactly one query parameter
\* and its value is the elements joined with commas in their order.
C4_ArrayIsOneCommaJoinedParameter ==
    Built =>
        \A i \in DOMAIN renamedParameters.entries :
            LET field == renamedParameters.entries[i]
            IN  (field.value.t = "array" /\ Len(field.value.a) > 0) =>
                    /\ Cardinality({j \in DOMAIN urlParameters :
                                        urlParameters[j].name = <<field.name>>}) = 1
                    /\ Carries(ParseQuery(queryString), field.name,
                               CommaJoined(field.value.a))

\* searchFilter ["sticker", "-static"] became searchfilter=sticker,-static
C4_Witness ==
    /\ Built
    /\ parameters.entries = <<[name |-> "searchFilter",
                               value |-> Arr(<<<<"sticker">>, <<"-static">>>>)]>>
    /\ Carries(ParseQuery(queryString), "searchfilter", <<"sticker", ",", "-static">>)
    /\ queryString = <<"searchfilter", "=", "sticker", "%", "2", "C", "-static">>

IsNonEmptyScalar(value) ==
    \/ value.t = "string" /\ value.s # <<>>
    \/ value.t = "number" /\ value.n # 0
    \/ value.t = "boolean" /\ value.b

\* the JavaScript value a parsed query holds under name: a string, or
\* undefined when the name is absent or repeated
Recovered(pairs, name) ==
    IF Count(pairs, name) = 1
        THEN Str(pairs[CHOOSE i \in DOMAIN pairs : pairs[i].name = <<name>>].value)
        ELSE Undefined

\* the text of a scalar: a string as it is, a number in decimal, true as "true"
ScalarText(value) ==
    CASE value.t = "string" -> value.s
      [] value.t = "number" -> NumberToString(value.n)
      [] value.t = "boolean" -> <<"true">>

WellFormed(text) == ~Occurs(text, LoneSurrogate)

\* C5 as stated: parsing the query string recovers, for each field whose value
\* is a non-empty non-array scalar, exactly the original value under its key.
C5_RoundTripExact ==
    Built =>
        \A i \in DOMAIN renamedParameters.entries :
            LET field == renamedParameters.entries[i]
            IN  IsNonEmptyScalar(field.value) =>
                    Recovered(ParseQuery(queryString), field.name) = field.value

\* C5 amended: parsing recovers exactly one value under the key, the text of
\* the original value with every unpaired surrogate replaced by U+FFFD; it is
\* the original value itself when that is a well-formed string, and the
\* decimal text of a number or "true" for a boolean, not the typed value.
C5_RoundTripText ==
    Built =>
        \A i \in DOMAIN renamedParameters.entries :
            LET field == renamedParameters.entries[i]
                back == Recovered(ParseQuery(queryString), field.name)
            IN  IsNonEmptyScalar(field.value) =>
                    /\ back.t = "string"
                    /\ back.s = [k \in DOMAIN ScalarText(field.value) |->
                                    IF ScalarText(field.value)[k] = LoneSurrogate
                                        THEN ReplacementCharacter
                                        ELSE ScalarText(field.value)[k]]
                    /\ (field.value.t = "string" /\ WellFormed(field.value.s)) =>
                            back = field.value

\* a search term with "&" and "=" came back unchanged next to a number that
\* came back as text
C5_Witness ==
    /\ Built
    /\ Len(renamedParameters.entries) = 2
    /\ renamedParameters.entries[1] =
            [name |-> "q", value |-> Str(<<"a", "&", "b", "=", "c">>)]
    /\ renamedParameters.entries[2] = [name |-> "limit", value |-> Num(20)]
    /\ Recovered(ParseQuery(queryString), "q") = Str(<<"a", "&", "b", "=", "c">>)
    /\ Recovered(ParseQuery(queryString), "limit") = Str(<<"2", "0">>)

(***************************************************************************)
(* Properties of #combineParameters                                         *)
(***************************************************************************)
\* the value the three layers give a field: the per-call one, else the
\* client-wide default, else the access key
Layered(name) ==
    IF HasOwn(mergeParameters.entries, name) THEN Get(mergeParameters.entries, name)
    ELSE IF HasOwn(mergeOptions.entries, name) THEN Get(mergeOptions.entries, name)
    ELSE Str(mergeKey)

\* #combineParameters by itself: its result is the merge of the access key,
\* the client-wide defaults and its argument, a later layer overriding an
\* earlier one for every field present in both, and it is a frozen mapping of
\* its own (the two argument mappings are not frozen by the call).
CombineParametersMergesThreeLayers ==
    mergeStage = "merged" =>
        /\ mergeResult.frozen
        /\ ~mergeOptions.frozen /\ ~mergeParameters.frozen
        /\ Names(mergeResult.entries)
                = {"key"} \cup Names(mergeOptions.entries) \cup Names(mergeParameters.entries)
        /\ DistinctNames(mergeResult.entries)
        /\ \A name \in Names(mergeResult.entries) :
                Get(mergeResult.entries, name) = Layered(name)

\* the options override the access key, and the call overrides a default
CombineParametersOverrides ==
    /\ mergeStage = "merged"
    /\ mergeOptions.entries = <<[name |-> "key", value |-> Str(<<"OPTIONSKEY">>)],
                                [name |-> "clientKey", value |-> Str(<<"my_test_app">>)]>>
    /\ mergeParameters.entries = <<[name |-> "clientKey", value |-> Str(<<"other_app">>)],
                                   [name |-> "limit", value |-> Num(8)]>>
    /\ mergeResult.entries = <<[name |-> "key", value |-> Str(<<"OPTIONSKEY">>)],
                               [name |-> "clientKey", value |-> Str(<<"other_app">>)],
                               [name |-> "limit", value |-> Num(8)]>>

(***************************************************************************)
(* Properties of the client                                                 *)
(***************************************************************************)
\* the query of a URL: what follows the first "?"
QueryOf(url) == IF IndexOf(url, "?") = 0 THEN <<>> ELSE Drop(url, IndexOf(url, "?"))

\* the query has a parameter name with the value text
HasParameter(pairs, name, text) ==
    \E i \in DOMAIN pairs : pairs[i].name = <<name>> /\ pairs[i].value = text

Requested(call) == call.pc # "idle"
Settled(call) == call.pc = "settled"
\* fetchTenorApi has ended after a response arrived
Answered(call) == call.pc \in {"unwrap", "settled"} /\ call.response.received
Success(call) == call.response.status \in 200..299

DefaultNames == {"clientKey", "country", "locale"}

\* C1: for every public operation and every call, the request's query carries
\* the access key given at construction under `key`, and every client-wide
\* default (client_key, country, locale) unless the call's own parameters
\* override that field.
C1_EveryRequestCarriesKeyAndDefaults ==
    \A c \in Slots :
        Requested(calls[c]) =>
            LET query == ParseQuery(QueryOf(calls[c].url))
            IN  /\ HasParameter(query, "key", key)
                /\ \A i \in DOMAIN options.entries :
                        LET default == options.entries[i]
                        IN  (/\ default.name \in DefaultNames
                             /\ ~HasOwn(calls[c].invocation.parameters.entries, default.name))
                                => HasParameter(query, ClaimedName(default.name),
                                                default.value.s)

\* the per-call layer of a call: the first argument and the parameters
PerCall(call) ==
    WithFirstArgument(call.invocation.operation, call.invocation.first,
                      call.invocation.parameters).entries

\* C8: the parameter set of every call is the merge of the access key, the
\* client-wide defaults and the per-call parameters, a later layer overriding
\* an earlier one for every field present in both, and it is a frozen mapping.
C8_EveryCallSendsTheThreeLayerMerge ==
    \A c \in Slots :
        Requested(calls[c]) =>
            LET sent == calls[c].sent
                given == PerCall(calls[c])
            IN  /\ sent.frozen
                /\ Names(sent.entries)
                        = {"key"} \cup Names(options.entries) \cup Names(given)
                /\ \A name \in Names(sent.entries) :
                        Get(sent.entries, name) =
                            IF HasOwn(given, name) THEN Get(given, name)
                            ELSE IF HasOwn(options.entries, name)
                                THEN Get(options.entries, name)
                            ELSE Str(key)

\* C6 as stated: whenever the status of the response is outside 2xx, the call
\* fails with a GoogleApiError that carries the code and the message of the
\* response's error envelope.
C6_NonSuccessIsRemoteError ==
    \A c \in Slots :
        (Answered(calls[c]) /\ Settled(calls[c]) /\ ~Success(calls[c])) =>
            /\ calls[c].outcome.kind = "thrown"
            /\ calls[c].outcome.error.name = "GoogleApiError"
            /\ calls[c].outcome.error.code = calls[c].response.body.code
            /\ calls[c].outcome.error.message = calls[c].response.body.message

\* C6 amended: whenever the status is outside 2xx the call never returns a
\* value; it fails with a GoogleApiError carrying the code and message of the
\* error envelope when the body decodes to one, and with the decoder's error
\* when the body is not JSON.
C6_NonSuccessFails ==
    \A c \in Slots :
        (Answered(calls[c]) /\ ~Success(calls[c])) =>
            LET call == calls[c]
                remote == Error("GoogleApiError", call.response.body.code,
                                call.response.body.message)
            IN  /\ call.fetched.kind = "thrown"
                /\ Settled(call) => call.outcome.kind = "thrown"
                /\ (~call.response.malformed /\ "error" \in call.response.body.has) =>
                        /\ call.fetched.error = remote
                        /\ Settled(call) => call.outcome.error = remote
                /\ call.response.malformed =>
                        /\ call.fetched.error.name = "SyntaxError"
                        /\ Settled(call) => call.outcome.error.name = "SyntaxError"

\* status 400 with {"error": {"code": "BAD_REQUEST", "message": "x"}} ended in
\* a GoogleApiError with that code and message
C6_Witness ==
    \E c \in Slots :
        /\ Settled(calls[c])
        /\ calls[c].invocation.operation = "getGifsBySearch"
        /\ calls[c].response =
                Response(400, FALSE, Json({"error"}, FALSE, Str(<<"BAD_REQUEST">>), <<"x">>))
        /\ calls[c].outcome =
                Thrown(Error("GoogleApiError", Str(<<"BAD_REQUEST">>), <<"x">>))

\* C7 as stated: whenever the status is success, fetchTenorApi returns the
\* decoded body as received and raises no GoogleApiError.
C7_SuccessReturnsBody ==
    \A c \in Slots :
        (Answered(calls[c]) /\ Success(calls[c])) =>
            calls[c].fetched = Returned(BodyValue(calls[c].response.body))

\* C7 amended: a success status never ends in a GoogleApiError; when the body
\* decodes as JSON, fetchTenorApi returns it exactly as received, whatever it
\* holds, and every operation but registerGifShareEvent returns that same
\* value; when the body is not JSON the call fails with the decoder's error.
C7_SuccessNeverRemoteError ==
    \A c \in Slots :
        (Answered(calls[c]) /\ Success(calls[c])) =>
            LET call == calls[c]
            IN  /\ call.fetched.error.name # "GoogleApiError"
                /\ call.outcome.error.name # "GoogleApiError"
                /\ ~call.response.malformed =>
                        /\ call.fetched = Returned(BodyValue(call.response.body))
                        /\ (/\ Settled(call)
                            /\ call.invocation.operation # "registerGifShareEvent")
                                => call.outcome = Returned(BodyValue(call.response.body))
                /\ call.response.malformed =>
                        /\ call.fetched = Thrown(JsonSyntaxError)
                        /\ Settled(call) => call.outcome = Thrown(JsonSyntaxError)

\* status 299 with a body that holds results and an error field was returned
\* as it is
C7_Witness ==
    \E c \in Slots :
        /\ Settled(calls[c])
        /\ calls[c].invocation.operation = "getGifsBySearch"
        /\ calls[c].response =
                Response(299, FALSE, Json({"results", "next", "error"}, FALSE, Num(200),
                                          <<"partial">>))
        /\ calls[c].outcome = Returned(BodyValue(calls[c].response.body))

\* the text ends with the given tokens
EndsWith(text, suffix) ==
    /\ Len(suffix) <= Len(text)
    /\ SubSeq(text, Len(text) - Len(suffix) + 1, Len(text)) = suffix

ExamplePath == <<"search", "?", "q", "=", "excited">>
ExampleParameters == Object(<<[name |-> "limit", value |-> Num(8)]>>)

Kept(entries) == {i \in DOMAIN entries : entries[i].value \notin DroppedValues}

C10_ShareEventReturnsStatus ==
    \A c \in Slots :
        (Settled(calls[c]) /\ calls[c].invocation.operation = "registerGifShareEvent") =>
            LET call == calls[c]
            IN  /\ call.outcome.value.t # "body"
                /\ (/\ call.response.received
                    /\ Success(call)
                    /\ ~call.response.malformed
                    /\ "status" \in call.response.body.has)
                        => call.outcome = Returned(BooleanValue(call.response.body.status))

\* a share event that was not registered gave false
C10_Witness ==
    \E c \in Slots :
        /\ Settled(calls[c])
        /\ calls[c].invocation.operation = "registerGifShareEvent"
        /\ calls[c].response = Response(200, FALSE, Json({"status"}, FALSE, Undefined, <<>>))
        /\ calls[c].outcome = Returned(BooleanValue(FALSE))

\* the transport or the decoder has failed in this call
Failed(call) == call.raised # NoError

\* C11: a failure raised by fetch or by the JSON decoding of the body makes
\* the call fail with that same error, unchanged, whatever the HTTP status
\* was: it is not wrapped, not turned into a GoogleApiError and not turned
\* into a returned value.
C11_FailuresPropagateUnchanged ==
    \A c \in Slots :
        LET call == calls[c]
        IN  /\ Failed(call) =>
                    /\ call.fetched = Thrown(call.raised)
                    /\ Settled(call) => call.outcome = Thrown(call.raised)
            /\ (Answered(call) /\ call.response.malformed) =>
                    call.raised = JsonSyntaxError
            /\ (call.pc \in {"unwrap", "settled"} /\ ~call.response.received) =>
                    call.raised \in TransportErrors

\* a share registration whose 400 response had a body that is not JSON ended
\* in the decoder's error
C11_Witness ==
    \E c \in Slots :
        /\ Settled(calls[c])
        /\ calls[c].invocation.operation = "registerGifShareEvent"
        /\ calls[c].response = Response(400, TRUE, NoJson)
        /\ calls[c].raised = JsonSyntaxError
        /\ calls[c].outcome = Thrown(JsonSyntaxError)

\* the resource each operation is documented to request
ClaimedResource ==
    [getSearchTermSuggestions |-> "search_suggestions",
     getSearchTermAutocompletes |-> "autocomplete",
     getTrendingSearchTerms |-> "trending_terms",
     getGifsBySearch |-> "search",
     getGifsById |-> "posts",
     getFeaturedGifs |-> "featured",
     getGifCategories |-> "categories",
     registerGifShareEvent |-> "registershare"]

ClaimedBase == <<"https:", "/", "/", "tenor.googleapis.com", "/", "v2">>

\* C12: every public operation other than the category search requests its
\* own fixed resource, and the request URL is base + "/" + resource + "?" +
\* queryString, the query string being the serialized parameters of the call.
C12_EndpointUrlIsBaseResourceQuery ==
    \A c \in Slots :
        (Requested(calls[c]) /\ calls[c].invocation.operation # "getGifsByCategory") =>
            LET call == calls[c]
                query == URLSearchParamsToString(
                            createUrlParameters(renameParameters(call.sent)))
            IN  /\ call.invocation.operation \in DOMAIN ClaimedResource
                /\ ~Occurs(query, "?")
                /\ call.url = ClaimedBase \o <<"/">>
                                \o <<ClaimedResource[call.invocation.operation]>>
                                \o <<"?">> \o query

\* getGifsById has requested <base>/posts?key=<key>&ids=<id>
C12_Witness ==
    \E c \in Slots :
        /\ Requested(calls[c])
        /\ calls[c].invocation.operation = "getGifsById"
        /\ calls[c].url = <<"https:", "/", "/", "tenor.googleapis.com", "/", "v2", "/",
                            "posts", "?", "key", "=">> \o key
                            \o <<"&", "ids", "=", "11586094175715197775">>

(***************************************************************************)
(* Properties of calls in flight at the same time                           *)
(***************************************************************************)
\* two calls were made with the same arguments
SameArguments(c, d) ==
    /\ Requested(calls[c])
    /\ Requested(calls[d])
    /\ calls[c].invocation = calls[d].invocation

\* two calls got the same answer from the transport
SameAnswer(c, d) ==
    /\ calls[c].response = calls[d].response
    /\ calls[c].raised = calls[d].raised

\* a step of one call leaves every other call and the configuration as they are
StepOfOneCall ==
    /\ key' = key
    /\ options' = options
    /\ \A c, d \in Slots : c # d => (calls'[c] = calls[c] \/ calls'[d] = calls[d])

\* equal arguments give equal URLs, and equal arguments with equal answers
\* give equal outcomes, whatever the other calls have done in between
SameInputsSameResults ==
    \A c, d \in Slots :
        SameArguments(c, d) =>
            /\ calls[c].url = calls[d].url
            /\ (Settled(calls[c]) /\ Settled(calls[d]) /\ SameAnswer(c, d)) =>
                    calls[c].outcome = calls[d].outcome

\* C13: calls on one client are independent under every interleaving: the
\* request URL and the outcome of a call depend only on its arguments, the
\* configuration and its own response, and no step of one call changes another
\* call, in flight or completed.
C13_CallsAreIndependent ==
    [] SameInputsSameResults /\ [][StepOfOneCall]_vars

\* a search has returned its body while a share registration made before it
\* got its answer is still decoding a 400 response
C13_Witness ==
    \E c, d \in Slots :
        /\ c # d
        /\ calls[c].pc = "json"
        /\ calls[c].invocation.operation = "registerGifShareEvent"
        /\ calls[c].response.status = 400
        /\ Settled(calls[d])
        /\ calls[d].invocation.operation = "getGifsBySearch"
        /\ calls[d].outcome = Returned(BodyValue(calls[d].response.body))
        /\ calls[d].response.status = 200

(***************************************************************************)
(* Determinism of the query string                                          *)
(***************************************************************************)
\* the name=value pieces of a query string, as they are written
RECURSIVE Pieces(_)
Pieces(text) ==
    IF text = <<>> THEN <<>>
    ELSE LET at == IndexOf(text, "&")
         IN  IF at = 0 THEN <<text>>
             ELSE <<SubSeq(text, 1, at - 1)>> \o Pieces(Drop(text, at))

\* two query strings are identical up to the order of their fields
SameUpToOrder(left, right) ==
    /\ Len(Pieces(left)) = Len(Pieces(right))
    /\ \A i \in DOMAIN Pieces(left) :
            Cardinality({j \in DOMAIN Pieces(left) : Pieces(left)[j] = Pieces(left)[i]})
                = Cardinality({j \in DOMAIN Pieces(right) :
                                    Pieces(right)[j] = Pieces(left)[i]})

\* the same fields in every order in which a caller can have written them
Reorderings(entries) ==
    {[i \in DOMAIN entries |-> entries[order[i]]] :
        order \in Permutations(DOMAIN entries)}

\* the query string of a second call made with the given fields
SecondQuery(entries) ==
    URLSearchParamsToString(createUrlParameters(renameParameters(Object(entries))))

\* C14 as stated: two calls with identical parameters produce byte-identical
\* query strings, ignoring field order.
C14_SameParametersSameQuery ==
    Built =>
        \A other \in Reorderings(parameters.entries) :
            SameUpToOrder(queryString, SecondQuery(other))

\* C14 amended: two calls whose parameters are written in the same order
\* produce the same query string byte for byte, and two calls with the same
\* parameters in any order produce the same query string up to the order of
\* the fields unless the parameters hold an idiomatic name together with its
\* own wire name.
C14_SameQueryUnlessBothNames ==
    Built =>
        /\ queryString = SecondQuery(parameters.entries)
        /\ ~HoldsBothNames(parameters.entries) =>
                \A other \in Reorderings(parameters.entries) :
                    SameUpToOrder(queryString, SecondQuery(other))

\* {limit: 8, positionId: "CAgQ"} gave limit=8&pos=CAgQ, and the same fields
\* written the other way round give pos=CAgQ&limit=8
C14_Witness ==
    /\ Built
    /\ parameters.entries = <<[name |-> "limit", value |-> Num(8)],
                              [name |-> "positionId", value |-> Str(<<"CAgQ">>)]>>
    /\ queryString = <<"limit", "=", "8", "&", "pos", "=", "CAgQ">>
    /\ SecondQuery(<<parameters.entries[2], parameters.entries[1]>>)
            = <<"pos", "=", "CAgQ", "&", "limit", "=", "8">>

(***************************************************************************)
(* The configuration and the caller's objects are only read                 *)
(***************************************************************************)
\* the arguments of a call that is under way stay as the caller passed them
ArgumentsUntouched ==
    \A c \in Slots :
        (Requested(calls[c]) /\ Requested(calls'[c])) =>
            calls'[c].invocation = calls[c].invocation

\* C15: the access key and the default options are set at construction and
\* only read afterwards: no step of any public operation or of a helper writes
\* the key, the options or the parameter objects the caller passed in, after
\* any sequence of calls.
C15_ConfigurationIsOnlyRead ==
    [][key' = key /\ options' = options /\ ArgumentsUntouched]_vars

\* a call that overrides clientKey has ended on a client whose default
\* clientKey is still the one given at construction
C15_Witness ==
    \E c \in Slots :
        /\ Settled(calls[c])
        /\ calls[c].invocation.parameters =
                Object(<<[name |-> "clientKey", value |-> Str(<<"other_app">>)]>>)
        /\ HasParameter(ParseQuery(QueryOf(calls[c].url)), "client_key", <<"other_app">>)
        /\ options = Object(<<[name |-> "clientKey", value |-> Str(<<"my_test_app">>)]>>)

(***************************************************************************)
(* The steps of one call                                                    *)
(***************************************************************************)
\* C16: every call issues exactly one HTTP GET request, whatever its outcome:
\* after a GoogleApiError or a transport or parse failure no further request
\* is issued for that call.
C16_OneRequestPerCall ==
    /\ \A c \in Slots : Requested(calls[c]) <=> calls[c].requests = 1
    /\ \A c \in Slots : calls[c].requests \in {0, 1}

\* a call that ended in a GoogleApiError has issued one request
C16_Witness ==
    \E c \in Slots :
        /\ Settled(calls[c])
        /\ calls[c].response.status = 500
        /\ calls[c].outcome.error.name = "GoogleApiError"
        /\ calls[c].requests = 1

\* C17: in every call the body of the response is decoded as JSON
\* unconditionally and before the status is examined: the steps are GET, then
\* body decode, then status check, for success and failure statuses alike.
C17_DecodeBeforeStatusTest ==
    \A c \in Slots :
        LET call == calls[c]
        IN  /\ Requested(call) =>
                    call.steps \in {<<"GET">>, <<"GET", "decode">>,
                                    <<"GET", "decode", "status">>}
            /\ call.response.received => call.steps[2] = "decode"
            /\ (Answered(call) /\ ~call.response.malformed) =>
                    call.steps = <<"GET", "decode", "status">>

\* a 400 response was decoded before its status was tested
C17_Witness ==
    \E c \in Slots :
        /\ Settled(calls[c])
        /\ calls[c].response.status = 400
        /\ ~calls[c].response.malformed
        /\ calls[c].steps = <<"GET", "decode", "status">>
        /\ calls[c].outcome.error.name = "GoogleApiError"

\* C18 as stated: each call suspends exactly once: between the start of a
\* public operation and its result there is exactly one point at which the
\* call yields to other calls.
C18_SuspendsExactlyOnce ==
    \A c \in Slots :
        /\ Requested(calls[c]) => calls[c].suspensions = 1
        /\ ~Requested(calls[c]) => calls[c].suspensions = 0

\* the suspensions of a call that has ended: `await fetch`, `await
\* response.json()` when a response arrived, and the await of
\* registerGifShareEvent
AwaitsPassed(call) ==
    1 + (IF call.response.received THEN 1 ELSE 0)
      + (IF call.invocation.operation = "registerGifShareEvent" THEN 1 ELSE 0)

\* C18 amended: a call suspends at every await it reaches: once at the
\* request, once more at the decoding of the body when a response arrives,
\* and once more in registerGifShareEvent, which awaits the result of the
\* fetch helper; a call that has ended has yielded one to three times.
C18_SuspendsAtEveryAwait ==
    \A c \in Slots :
        LET call == calls[c]
        IN  /\ Requested(call) => call.suspensions \in 1..3
            /\ call.pc = "fetch" => call.suspensions = 1
            /\ call.pc = "json" => call.suspensions = 2
            /\ Settled(call) => call.suspensions = AwaitsPassed(call)

\* a search that yielded twice and a share registration that yielded three
\* times have both ended, after running side by side
C18_Witness ==
    \E c, d \in Slots :
        /\ Settled(calls[c])
        /\ calls[c].invocation.operation = "getGifsBySearch"
        /\ calls[c].response.received
        /\ calls[c].suspensions = 2
        /\ Settled(calls[d])
        /\ calls[d].invocation.operation = "registerGifShareEvent"
        /\ calls[d].response.received
        /\ calls[d].suspensions = 3

(***************************************************************************)
(* One entry per retained field; renameParameters is pure                   *)
(***************************************************************************)
\* the number of entries of the query that have the same key as entry j
SameKey(pairs, j) == Cardinality({k \in DOMAIN pairs : pairs[k].name = pairs[j].name})

\* C19: the query string holds exactly one entry per retained field of the
\* normalized mapping and nothing else: every field whose value is truthy and
\* not an empty array appears once under its wire name, no key appears twice
\* (also when the input holds an idiomatic name and its wire name), and no
\* parameter appears that the input did not supply.
C19_OneEntryPerRetainedField ==
    Built =>
        LET query == ParseQuery(queryString)
            normalized == renamedParameters.entries
            retained == Kept(normalized)
        IN  /\ Len(query) = Cardinality(retained)
            /\ \A i \in retained :
                    /\ Count(query, normalized[i].name) = 1
                    /\ normalized[i].name \notin DOMAIN ClaimedWireNames
            /\ \A j \in DOMAIN query :
                    /\ SameKey(query, j) = 1
                    /\ \E i \in DOMAIN parameters.entries :
                            query[j].name = <<ClaimedName(parameters.entries[i].name)>>
                    /\ \E i \in retained : query[j].name = <<normalized[i].name>>

\* an input that holds searchTerm and q gave one entry under q, and no limit
C19_Witness ==
    /\ Built
    /\ parameters.entries = <<[name |-> "searchTerm", value |-> Str(<<"excited">>)],
                              [name |-> "q", value |-> Str(<<"happy">>)]>>
    /\ queryString = <<"q", "=", "happy">>

\* C20: renameParameters is a pure function: it leaves its input mapping
\* unchanged (same keys, same values, still not frozen) and returns a new
\* mapping that is frozen, for every input.
C20_RenameIsPure ==
    /\ [][parameters' = parameters]_vars
    /\ [](Renamed => (renamedParameters.frozen /\ ~parameters.frozen))

\* {searchTerm: "excited"} is as it was and {q: "excited"}, frozen, was returned
C20_Witness ==
    /\ Renamed
    /\ parameters = Object(<<[name |-> "searchTerm", value |-> Str(<<"excited">>)]>>)
    /\ renamedParameters =
            ObjectFreeze(Object(<<[name |-> "q", value |-> Str(<<"excited">>)]>>))

(***************************************************************************)
(* A per-call field without a value still overrides the default            *)
(***************************************************************************)
\* the fields of the call's parameters that hold undefined or another falsy
\* value while the client-wide defaults define them
Blanked(call) ==
    {i \in DOMAIN call.invocation.parameters.entries :
        /\ call.invocation.parameters.entries[i].value \in DroppedValues
        /\ HasOwn(options.entries, call.invocation.parameters.entries[i].name)}

\* C21: when the per-call parameters hold a field set to undefined (or to
\* another falsy value) that the client-wide defaults also define, the
\* per-call layer still overrides the default in the merge, so the field is
\* omitted from the request query and the default is not sent in its place.
C21_BlankFieldOverridesDefault ==
    \A c \in Slots :
        Requested(calls[c]) =>
            \A i \in Blanked(calls[c]) :
                LET field == calls[c].invocation.parameters.entries[i]
                    query == ParseQuery(QueryOf(calls[c].url))
                IN  /\ HasOwn(calls[c].sent.entries, field.name)
                    /\ Get(calls[c].sent.entries, field.name) = field.value
                    /\ Count(query, ClaimedName(field.name)) = 0
                    /\ Count(query, field.name) = 0

\* a search with {locale: undefined} on a client whose defaults are country KR
\* and locale ko has sent the country and no locale
C21_Witness ==
    \E c \in Slots :
        /\ Requested(calls[c])
        /\ calls[c].invocation.operation = "getGifsBySearch"
        /\ calls[c].invocation.parameters =
                Object(<<[name |-> "locale", value |-> Undefined]>>)
        /\ options = Object(<<[name |-> "country", value |-> Str(<<"KR">>)],
                              [name |-> "locale", value |-> Str(<<"ko">>)]>>)
        /\ Blanked(calls[c]) = {1}
        /\ HasParameter(ParseQuery(QueryOf(calls[c].url)), "country", <<"KR">>)
        /\ Count(ParseQuery(QueryOf(calls[c].url)), "locale") = 0

====
